---- MODULE Spec2Model ----
(***************************************************************************)
(* The VEO-3 client (frontend/src/App.tsx) and its relay (the Express      *)
(* server), as one state machine.                                          *)
(*                                                                         *)
(* The client is a single React component.  Each action below is one       *)
(* synchronous run of a handler (a click handler, an interval callback up  *)
(* to its await, or the continuation after an await), followed by the      *)
(* render React does for the state it set and the polling effect of that   *)
(* render.  Calls to the relay are asynchronous: a call is put in flight   *)
(* by one action, handled by the relay in a second and settled (resolved   *)
(* or rejected) in the client in a third.                                  *)
(***************************************************************************)
EXTENDS Naturals, FiniteSets, Bags

\* Bounds of the model.
MaxOperations == 2      \* operations the upstream service issues
MaxCalls == 2           \* relay calls in flight at once, of all kinds

Null == "null"                 \* JS null
Undefined == "undefined"       \* a field the object does not have

Prompts == {"", " ", "a cat"}
Video == "video"
QuotaExceeded == "quota exceeded"

PromptEmptyMsg == "Prompt cannot be empty."
StatusFailedMsg == "Failed to fetch video status from backend."
CancelFailedMsg == "Failed to request cancellation from backend"
InitiateFailedMsg == "Failed to initiate video generation via backend."

VARIABLES
    mounted,             \* whether the App component is mounted
    currentJob,          \* useState<VideoJobDetails | null>
    currentPrompt,       \* useState<string>
    isLoading,           \* the busy flag
    isFetchingStatus,    \* the reentrancy flag of the status fetch
    error,               \* the message shown, or Null
    pollingIntervalRef,  \* the interval id the ref holds, 0 for null
    timers,              \* the live intervals, each with what its callback closed over
    generateCalls,       \* bag: POST /api/veo/generate calls in flight
    statusCalls,         \* bag: GET /api/veo/status/:operationId calls in flight
    cancelCalls,         \* bag: POST /api/veo/cancel/:operationId calls in flight
    operations           \* the upstream service's long-running operations, by id

clientVars == <<currentJob, currentPrompt, isLoading, isFetchingStatus, error,
                pollingIntervalRef, timers>>
callVars == <<generateCalls, statusCalls, cancelCalls>>
vars == <<mounted, currentJob, currentPrompt, isLoading, isFetchingStatus,
          error, pollingIntervalRef, timers, generateCalls, statusCalls,
          cancelCalls, operations>>

----------------------------------------------------------------------------
\* Helpers on bags and on the values of the program.

Put(bag, c) == bag (+) SetToBag({c})
Take(bag, c) == bag (-) SetToBag({c})
Move(bag, c, d) == Put(Take(bag, c), d)
InFlight == BagCardinality(generateCalls) + BagCardinality(statusCalls)
              + BagCardinality(cancelCalls)

Issued == DOMAIN operations

\* String.prototype.trim on the prompts of the model.
trim(p) == IF p = " " THEN "" ELSE p

\* currentJob = null, as a record so that it compares with a job; an operation
\* id of 0 is a null operationId.
NoJob == [operationId |-> 0, status |-> Null, errorMessage |-> Null,
          videoBase64 |-> Null, prompt |-> Null]

Terminal == {"SUCCEEDED", "FAILED"}
Pollable(job) ==
    /\ job # NoJob
    /\ job.operationId # 0
    /\ job.status \in {"RUNNING", "GENERATING"}

----------------------------------------------------------------------------
\* The polling effect.

\* (mutant: the ref is set to null and the interval is left running)
clearPollingInterval_NoClearInterval(ts, ref) == [timers |-> ts, ref |-> 0]

\* clearInterval on the interval the ref holds, and the ref set to null.
clearPollingInterval(ts, ref) ==
    IF ref # 0
    THEN [timers |-> {t \in ts : t.id # ref}, ref |-> 0]
    ELSE [timers |-> ts, ref |-> ref]

\* setInterval: a new interval id, never one that is live.
NewIntervalId(ts) ==
    IF ts = {} THEN 1
    ELSE 1 + (CHOOSE m \in {t.id : t \in ts} : \A t \in ts : t.id <= m)

\* (mutant: the effect polls any job with an operation id, whatever its status)
useEffect_AnyStatus(job, fetching, ts, ref) ==
    LET cleaned == clearPollingInterval(ts, ref) IN
    IF job # NoJob /\ job.operationId # 0
    THEN LET c == clearPollingInterval(cleaned.timers, cleaned.ref)
             id == NewIntervalId(c.timers)
         IN  [timers |-> c.timers \cup
                         {[id |-> id, operationId |-> job.operationId,
                           isFetchingStatus |-> fetching]},
              ref |-> id]
    ELSE clearPollingInterval(cleaned.timers, cleaned.ref)

\* The effect's cleanup followed by its body, for the job and the flag of the
\* render it belongs to; the interval callback closes over both.
useEffect(job, fetching, ts, ref) ==
    LET cleaned == clearPollingInterval(ts, ref) IN
    IF Pollable(job)
    THEN LET c == clearPollingInterval(cleaned.timers, cleaned.ref)
             id == NewIntervalId(c.timers)
         IN  [timers |-> c.timers \cup
                         {[id |-> id, operationId |-> job.operationId,
                           isFetchingStatus |-> fetching]},
              ref |-> id]
    ELSE clearPollingInterval(cleaned.timers, cleaned.ref)

\* A render: the effect runs again only when one of its dependencies
\* (currentJob by identity, isFetchingStatus by value) changed.
Render(depsChanged, job, fetching, ts, ref) ==
    IF depsChanged THEN useEffect(job, fetching, ts, ref)
    ELSE [timers |-> ts, ref |-> ref]

----------------------------------------------------------------------------
Init ==
    /\ mounted = TRUE
    /\ currentJob = NoJob
    /\ currentPrompt = ""
    /\ isLoading = FALSE
    /\ isFetchingStatus = FALSE
    /\ error = Null
    /\ pollingIntervalRef = 0
    /\ timers = {}
    /\ generateCalls = EmptyBag
    /\ statusCalls = EmptyBag
    /\ cancelCalls = EmptyBag
    /\ operations = <<>>

\* The textarea's onChange (disabled while isLoading).
SetCurrentPrompt ==
    /\ ~isLoading
    /\ \E p \in Prompts \ {currentPrompt} : currentPrompt' = p
    /\ UNCHANGED <<currentJob, isLoading, isFetchingStatus, error,
                   pollingIntervalRef, timers, callVars, operations>>

----------------------------------------------------------------------------
\* services/aiService: how an awaited relay call settles in the client.  A call
\* resolves on a 2xx reply and rejects on any other reply; a call the relay has
\* not answered (not yet, or never) can only reject, with a transport failure.
Settles(st) ==
    IF st \in {"200", "RUNNING", "SUCCEEDED", "FAILED"} THEN "resolve" ELSE "reject"

\* fetchVideoStatus resolves with the relay's JSON body read as VideoJobDetails:
\* {id, operationId, status} and no other field.
fetchVideoStatus(c) ==
    [operationId |-> c.operationId, status |-> c.st, errorMessage |-> Undefined,
     videoBase64 |-> Undefined, prompt |-> Undefined]

----------------------------------------------------------------------------
\* The Generate Video button and handleInitiateVideo.

GenerateButtonEnabled == ~(isLoading \/ trim(currentPrompt) = "")

\* (mutant: the prompt is tested without trim)
handleInitiateVideo_NoTrim ==
    IF currentPrompt = ""
    THEN /\ error' = PromptEmptyMsg
         /\ UNCHANGED <<currentJob, currentPrompt, isLoading, isFetchingStatus,
                        pollingIntervalRef, timers, callVars, operations>>
    ELSE IF isLoading
    THEN UNCHANGED vars
    ELSE LET cleared == clearPollingInterval(timers, pollingIntervalRef)
             r == Render(currentJob # NoJob, NoJob, isFetchingStatus,
                         cleared.timers, cleared.ref)
         IN  /\ isLoading' = TRUE
             /\ error' = Null
             /\ currentJob' = NoJob
             /\ timers' = r.timers
             /\ pollingIntervalRef' = r.ref
             /\ generateCalls' = Put(generateCalls,
                    [prompt |-> currentPrompt, st |-> "sent", operationId |-> 0,
                     from |-> "app"])
             /\ UNCHANGED <<currentPrompt, isFetchingStatus, statusCalls,
                            cancelCalls, operations>>

handleInitiateVideo ==
    IF trim(currentPrompt) = ""
    THEN /\ error' = PromptEmptyMsg
         /\ UNCHANGED <<currentJob, currentPrompt, isLoading, isFetchingStatus,
                        pollingIntervalRef, timers, callVars, operations>>
    ELSE IF isLoading
    THEN UNCHANGED vars
    ELSE LET cleared == clearPollingInterval(timers, pollingIntervalRef)
             r == Render(currentJob # NoJob, NoJob, isFetchingStatus,
                         cleared.timers, cleared.ref)
         IN  /\ isLoading' = TRUE
             /\ error' = Null
             /\ currentJob' = NoJob
             /\ timers' = r.timers
             /\ pollingIntervalRef' = r.ref
             /\ generateCalls' = Put(generateCalls,
                    [prompt |-> currentPrompt, st |-> "sent", operationId |-> 0,
                     from |-> "app"])
             /\ UNCHANGED <<currentPrompt, isFetchingStatus, statusCalls,
                            cancelCalls, operations>>

ClickGenerate ==
    /\ GenerateButtonEnabled
    /\ InFlight < MaxCalls
    /\ handleInitiateVideo

\* The continuation of handleInitiateVideo after its await: the job of the try
\* block when the call resolved.
InitiateResolved(c) ==
    LET job == [operationId |-> c.operationId, status |-> "GENERATING",
                errorMessage |-> Null, videoBase64 |-> Null, prompt |-> c.prompt]
        r == Render(TRUE, job, isFetchingStatus, timers, pollingIntervalRef)
    IN  /\ currentJob' = job
        /\ timers' = r.timers
        /\ pollingIntervalRef' = r.ref
        /\ UNCHANGED <<isLoading, error>>

\* (mutant: the catch block without setIsLoading(false))
InitiateRejected_StaysBusy ==
    /\ error' = InitiateFailedMsg
    /\ UNCHANGED <<isLoading, currentJob, timers, pollingIntervalRef>>

\* The catch block of handleInitiateVideo.
InitiateRejected ==
    /\ error' = InitiateFailedMsg
    /\ isLoading' = FALSE
    /\ UNCHANGED <<currentJob, timers, pollingIntervalRef>>

InitiateSettledFor(c) ==
    /\ c.from = "app"
    /\ generateCalls' = Take(generateCalls, c)
    /\ IF Settles(c.st) = "resolve" THEN InitiateResolved(c) ELSE InitiateRejected
    /\ UNCHANGED <<currentPrompt, isFetchingStatus, statusCalls, cancelCalls,
                   operations>>

InitiateSettled == \E c \in BagToSet(generateCalls) : InitiateSettledFor(c)

----------------------------------------------------------------------------
\* The relay: POST /api/veo/generate.  The upstream call returns an operation,
\* returns a response without one, or throws; the catch block only logs, so a
\* throw leaves the request without a response.
RelayGenerate ==
    \E c \in BagToSet(generateCalls) :
        /\ c.st = "sent"
        /\ IF c.prompt = ""
           THEN /\ generateCalls' = Move(generateCalls, c, [c EXCEPT !.st = "400"])
                /\ UNCHANGED operations
           ELSE \E upstream \in {"operation", "none", "throws"} :
                  CASE upstream = "operation" ->
                         /\ Cardinality(Issued) < MaxOperations
                         /\ LET id == Cardinality(Issued) + 1 IN
                            /\ operations' =
                                 [i \in Issued \cup {id} |->
                                    IF i = id
                                    THEN [done |-> FALSE, response |-> Null,
                                          error |-> Null]
                                    ELSE operations[i]]
                            /\ generateCalls' = Move(generateCalls, c,
                                 [c EXCEPT !.st = "200", !.operationId = id])
                    [] upstream = "none" ->
                         /\ generateCalls' = Move(generateCalls, c,
                                                  [c EXCEPT !.st = "500"])
                         /\ UNCHANGED operations
                    [] upstream = "throws" ->
                         /\ generateCalls' = Move(generateCalls, c,
                                                  [c EXCEPT !.st = "hung"])
                         /\ UNCHANGED operations
        /\ UNCHANGED <<clientVars, statusCalls, cancelCalls>>

----------------------------------------------------------------------------
\* The polling interval's callback, up to its await.  It reads the operation id
\* and the isFetchingStatus its effect's render closed over.
Tick ==
    \E t \in timers :
        IF t.isFetchingStatus
        THEN UNCHANGED vars
        ELSE /\ InFlight < MaxCalls
             /\ LET r == Render(isFetchingStatus # TRUE, currentJob, TRUE, timers,
                                pollingIntervalRef)
                IN  /\ isFetchingStatus' = TRUE
                    /\ error' = Null
                    /\ timers' = r.timers
                    /\ pollingIntervalRef' = r.ref
                    /\ statusCalls' = Put(statusCalls,
                         [operationId |-> t.operationId, by |-> "poll", st |-> "sent"])
                    /\ UNCHANGED <<currentJob, currentPrompt, isLoading,
                                   generateCalls, cancelCalls, operations>>

\* (mutant: the button without its check of the terminal statuses)
FetchButtonEnabled_AnyStatus ==
    ~(isLoading \/ isFetchingStatus \/ currentJob = NoJob
        \/ currentJob.operationId = 0)

\* The Fetch Video Status button and handleFetchStatusManual, up to its await.
FetchButtonEnabled ==
    ~(isLoading \/ isFetchingStatus \/ currentJob = NoJob
        \/ currentJob.operationId = 0 \/ currentJob.status \in Terminal)

handleFetchStatusManual ==
    IF currentJob = NoJob \/ currentJob.operationId = 0 \/ isLoading
         \/ isFetchingStatus
    THEN UNCHANGED vars
    ELSE LET r == Render(isFetchingStatus # TRUE, currentJob, TRUE, timers,
                         pollingIntervalRef)
         IN  /\ isFetchingStatus' = TRUE
             /\ error' = Null
             /\ timers' = r.timers
             /\ pollingIntervalRef' = r.ref
             /\ statusCalls' = Put(statusCalls,
                  [operationId |-> currentJob.operationId, by |-> "manual",
                   st |-> "sent"])
             /\ UNCHANGED <<currentJob, currentPrompt, isLoading, generateCalls,
                            cancelCalls, operations>>

ClickFetchStatus ==
    /\ FetchButtonEnabled
    /\ InFlight < MaxCalls
    /\ handleFetchStatusManual

\* (mutant: the try block without setCurrentJob(updatedJob))
ApplyStatus_DropsJob(updatedJob) ==
    LET r == Render(isFetchingStatus # FALSE, currentJob, FALSE, timers,
                    pollingIntervalRef)
    IN  /\ isFetchingStatus' = FALSE
        /\ timers' = r.timers
        /\ pollingIntervalRef' = r.ref
        /\ UNCHANGED <<currentJob, isLoading, error>>

\* (mutant: the try block without setIsLoading(false) on a terminal status)
ApplyStatus_StaysBusy(updatedJob) ==
    LET cleared == IF updatedJob.status \in Terminal
                   THEN clearPollingInterval(timers, pollingIntervalRef)
                   ELSE [timers |-> timers, ref |-> pollingIntervalRef]
        r == Render(TRUE, updatedJob, FALSE, cleared.timers, cleared.ref)
    IN  /\ currentJob' = updatedJob
        /\ isFetchingStatus' = FALSE
        /\ timers' = r.timers
        /\ pollingIntervalRef' = r.ref
        /\ UNCHANGED <<isLoading, error>>

\* What both status fetches do with the job the relay returned (the try block).
ApplyStatus(updatedJob) ==
    LET cleared == IF updatedJob.status \in Terminal
                   THEN clearPollingInterval(timers, pollingIntervalRef)
                   ELSE [timers |-> timers, ref |-> pollingIntervalRef]
        r == Render(TRUE, updatedJob, FALSE, cleared.timers, cleared.ref)
    IN  /\ currentJob' = updatedJob
        /\ isLoading' = IF updatedJob.status \in Terminal THEN FALSE ELSE isLoading
        /\ isFetchingStatus' = FALSE
        /\ timers' = r.timers
        /\ pollingIntervalRef' = r.ref
        /\ UNCHANGED error

\* (mutant: the catch block also marks the job FAILED)
PollFailed_MarksJobFailed ==
    LET cleared == clearPollingInterval(timers, pollingIntervalRef)
        job == [currentJob EXCEPT !.status = "FAILED"]
        r == Render(TRUE, job, FALSE, cleared.timers, cleared.ref)
    IN  /\ error' = StatusFailedMsg
        /\ isLoading' = FALSE
        /\ isFetchingStatus' = FALSE
        /\ timers' = r.timers
        /\ pollingIntervalRef' = r.ref
        /\ currentJob' = job

\* The catch block of the interval callback, then its finally.
PollFailed ==
    LET cleared == clearPollingInterval(timers, pollingIntervalRef)
        r == Render(isFetchingStatus # FALSE, currentJob, FALSE, cleared.timers,
                    cleared.ref)
    IN  /\ error' = StatusFailedMsg
        /\ isLoading' = FALSE
        /\ isFetchingStatus' = FALSE
        /\ timers' = r.timers
        /\ pollingIntervalRef' = r.ref
        /\ UNCHANGED currentJob

\* The catch block of handleFetchStatusManual, then its finally.
ManualFailed ==
    LET r == Render(isFetchingStatus # FALSE, currentJob, FALSE, timers,
                    pollingIntervalRef)
    IN  /\ error' = StatusFailedMsg
        /\ isFetchingStatus' = FALSE
        /\ timers' = r.timers
        /\ pollingIntervalRef' = r.ref
        /\ UNCHANGED <<currentJob, isLoading>>

\* The continuation of a status fetch after its await.
StatusResolvedFor(c) ==
    /\ Settles(c.st) = "resolve"
    /\ statusCalls' = Take(statusCalls, c)
    /\ ApplyStatus(fetchVideoStatus(c))
    /\ UNCHANGED <<currentPrompt, generateCalls, cancelCalls, operations>>

StatusRejectedFor(c) ==
    /\ Settles(c.st) = "reject"
    /\ statusCalls' = Take(statusCalls, c)
    /\ IF c.by = "poll" THEN PollFailed ELSE ManualFailed
    /\ UNCHANGED <<currentPrompt, generateCalls, cancelCalls, operations>>

StatusResolved == \E c \in BagToSet(statusCalls) : StatusResolvedFor(c)

StatusRejected == \E c \in BagToSet(statusCalls) : StatusRejectedFor(c)

----------------------------------------------------------------------------
\* The relay: GET /api/veo/status/:operationId.

\* (mutant: a done operation is a success, whatever its result)
RelayStatusOf_IgnoresResult(data) ==
    IF data.done THEN "SUCCEEDED" ELSE "RUNNING"

\* The status the relay derives from the upstream operation's data.
RelayStatusOf(data) ==
    IF data.done
    THEN IF data.response # Null THEN "SUCCEEDED" ELSE "FAILED"
    ELSE "RUNNING"

RelayStatus ==
    \E c \in BagToSet(statusCalls) :
        /\ c.st = "sent"
        /\ \E upstream \in {"data", "throws"} :
             statusCalls' = Move(statusCalls, c,
                [c EXCEPT !.st = IF upstream = "data"
                                 THEN RelayStatusOf(operations[c.operationId])
                                 ELSE "hung"])
        /\ UNCHANGED <<clientVars, generateCalls, cancelCalls, operations>>

\* The upstream service finishes an operation, with a result, an error, both
\* or neither; a finished operation does not change again.
UpstreamFinishes ==
    \E id \in Issued :
        /\ ~operations[id].done
        /\ \E resp \in {Null, Video}, err \in {Null, QuotaExceeded} :
             operations' = [operations EXCEPT
                              ![id] = [done |-> TRUE, response |-> resp,
                                       error |-> err]]
        /\ UNCHANGED <<clientVars, callVars>>

----------------------------------------------------------------------------
\* The Clear Job / Reset button and handleClearJob.

ClearButtonEnabled ==
    ~(isLoading /\ currentJob.status \in {"GENERATING", "RUNNING"})

\* (mutant: the reset without setCurrentJob(null))
ResetState_KeepsJob(pendingError) ==
    /\ currentPrompt' = ""
    /\ error' = Null
    /\ isLoading' = FALSE
    /\ isFetchingStatus' = FALSE
    /\ UNCHANGED <<currentJob, timers, pollingIntervalRef>>

\* (mutant: the reset without its setError(null))
ResetState_KeepsError(pendingError) ==
    LET cleared == clearPollingInterval(timers, pollingIntervalRef)
        r == Render(currentJob # NoJob \/ isFetchingStatus # FALSE, NoJob, FALSE,
                    cleared.timers, cleared.ref)
    IN  /\ currentJob' = NoJob
        /\ currentPrompt' = ""
        /\ error' = pendingError
        /\ isLoading' = FALSE
        /\ isFetchingStatus' = FALSE
        /\ timers' = r.timers
        /\ pollingIntervalRef' = r.ref

\* The statements after the if block: the reset of the whole client state.
\* pendingError is the error set earlier in the same run of the handler; the
\* reset's own setError(null) is the last write and replaces it.
ResetState(pendingError) ==
    LET cleared == clearPollingInterval(timers, pollingIntervalRef)
        r == Render(currentJob # NoJob \/ isFetchingStatus # FALSE, NoJob, FALSE,
                    cleared.timers, cleared.ref)
    IN  /\ currentJob' = NoJob
        /\ currentPrompt' = ""
        /\ error' = Null
        /\ isLoading' = FALSE
        /\ isFetchingStatus' = FALSE
        /\ timers' = r.timers
        /\ pollingIntervalRef' = r.ref

\* handleClearJob up to its await (a pollable job), or to its end (any other).
handleClearJob ==
    IF Pollable(currentJob)
    THEN /\ isLoading' = TRUE
         /\ error' = Null
         /\ cancelCalls' = Put(cancelCalls,
              [operationId |-> currentJob.operationId, st |-> "sent"])
         /\ UNCHANGED <<currentJob, currentPrompt, isFetchingStatus,
                        pollingIntervalRef, timers, generateCalls, statusCalls,
                        operations>>
    ELSE /\ ResetState(error)
         /\ UNCHANGED <<callVars, operations>>

ClickClear ==
    /\ ClearButtonEnabled
    /\ Pollable(currentJob) => InFlight < MaxCalls
    /\ handleClearJob

\* The catch block of handleClearJob: the error pending after it.
CancelCaught(c) ==
    IF Settles(c.st) = "reject" THEN CancelFailedMsg ELSE error

\* The continuation of handleClearJob after its await: the catch block when the
\* cancel call rejected, the finally block, then the reset.
CancelSettledFor(c) ==
    /\ cancelCalls' = Take(cancelCalls, c)
    /\ ResetState(CancelCaught(c))
    /\ UNCHANGED <<generateCalls, statusCalls, operations>>

CancelSettled == \E c \in BagToSet(cancelCalls) : CancelSettledFor(c)

\* The relay: POST /api/veo/cancel/:operationId.  The upstream call returns, or
\* throws and leaves the request without a response.
RelayCancel ==
    \E c \in BagToSet(cancelCalls) :
        /\ c.st = "sent"
        /\ \E upstream \in {"ok", "throws"} :
             cancelCalls' = Move(cancelCalls, c,
                [c EXCEPT !.st = IF upstream = "ok" THEN "200" ELSE "hung"])
        /\ UNCHANGED <<clientVars, generateCalls, statusCalls, operations>>

\* The ErrorDisplay's onClear.
clearError ==
    /\ error # Null
    /\ error' = Null
    /\ UNCHANGED <<currentJob, currentPrompt, isLoading, isFetchingStatus,
                   pollingIntervalRef, timers, callVars, operations>>

\* The component unmounts: the cleanup of the polling effect runs.  React drops
\* the state updates of an unmounted component and renders it no more, so no
\* step of the client follows.
Unmount ==
    /\ mounted
    /\ mounted' = FALSE
    /\ LET cleaned == clearPollingInterval(timers, pollingIntervalRef)
       IN  /\ timers' = cleaned.timers
           /\ pollingIntervalRef' = cleaned.ref
    /\ UNCHANGED <<currentJob, currentPrompt, isLoading, isFetchingStatus, error,
                   callVars, operations>>

\* A step of the client: the component is mounted and stays so.
WhileMounted(step) == mounted /\ step /\ UNCHANGED mounted

\* A step of the relay or of the upstream service, whatever the client does.
Server(step) == step /\ UNCHANGED mounted

Next ==
    \/ WhileMounted(SetCurrentPrompt)
    \/ WhileMounted(ClickGenerate)
    \/ WhileMounted(InitiateSettled)
    \/ Server(RelayGenerate)
    \/ WhileMounted(Tick)
    \/ WhileMounted(ClickFetchStatus)
    \/ WhileMounted(StatusResolved)
    \/ WhileMounted(StatusRejected)
    \/ Server(RelayStatus)
    \/ Server(UpstreamFinishes)
    \/ WhileMounted(ClickClear)
    \/ WhileMounted(CancelSettled)
    \/ Server(RelayCancel)
    \/ WhileMounted(clearError)
    \/ Unmount

Spec == Init /\ [][Next]_vars

----------------------------------------------------------------------------
\* The handlers under every input: handleInitiateVideo invoked whatever the
\* state of its button, and the relay's generate route posted to by any client,
\* with or without a prompt.

CallHandleInitiateVideo ==
    /\ InFlight < MaxCalls
    /\ handleInitiateVideo

\* A client other than the App posts to /api/veo/generate.
PostGenerate ==
    /\ InFlight < MaxCalls
    /\ \E p \in {"", "a cat"} :
         generateCalls' = Put(generateCalls,
            [prompt |-> p, st |-> "sent", operationId |-> 0, from |-> "direct"])
    /\ UNCHANGED <<clientVars, statusCalls, cancelCalls, operations>>

\* That client's request ends: it got the relay's answer or gave up waiting.
PostGenerateEnded ==
    \E c \in BagToSet(generateCalls) :
        /\ c.from = "direct"
        /\ c.st # "sent"
        /\ generateCalls' = Take(generateCalls, c)
        /\ UNCHANGED <<clientVars, statusCalls, cancelCalls, operations>>

DirectNext ==
    \/ Next
    \/ WhileMounted(CallHandleInitiateVideo)
    \/ Server(PostGenerate)
    \/ Server(PostGenerateEnded)

DirectSpec == Init /\ [][DirectNext]_vars

----------------------------------------------------------------------------
\* The happy path: the user starts jobs and watches them (no manual fetch is
\* possible while a job is polled, and there is no clear and no unmount), every
\* request reaches the relay and is answered, and no upstream call throws.
\* The interval keeps firing, the relay handles the requests it receives and
\* an awaited call's continuation runs once the call has settled.

Answered(calls) == \A c \in BagToSet(calls) : c.st # "hung"

HappyRelayGenerate == RelayGenerate /\ Answered(generateCalls')

HappyRelayStatus == RelayStatus /\ Answered(statusCalls')

HappyInitiateSettled ==
    \E c \in BagToSet(generateCalls) : c.st # "sent" /\ InitiateSettledFor(c)

HappyNext ==
    \/ WhileMounted(SetCurrentPrompt)
    \/ WhileMounted(ClickGenerate)
    \/ WhileMounted(HappyInitiateSettled)
    \/ Server(HappyRelayGenerate)
    \/ WhileMounted(Tick)
    \/ WhileMounted(StatusResolved)
    \/ Server(HappyRelayStatus)
    \/ Server(UpstreamFinishes)
    \/ WhileMounted(clearError)

HappySpec ==
    /\ Init
    /\ [][HappyNext]_vars
    /\ WF_vars(WhileMounted(Tick))
    /\ WF_vars(Server(HappyRelayStatus))
    /\ WF_vars(WhileMounted(StatusResolved))

----------------------------------------------------------------------------
\* The properties.

\* The status calls in flight for one operation.
Outstanding(id) ==
    BagCardinality([c \in {x \in BagToSet(statusCalls) : x.operationId = id}
                      |-> statusCalls[c]])

\* C1: for every job (operation id), at most one status call to the relay is
\* outstanding at any time.
C1_AtMostOneStatusCallPerJob ==
    \A id \in Issued : Outstanding(id) <= 1

\* C2: when a status call of the poller fails, an error message is shown and
\* polling stops: the failure leaves no polling timer live.
C2_PollFailureStopsPolling ==
    [][(\E c \in BagToSet(statusCalls) : c.by = "poll" /\ StatusRejectedFor(c))
         => (error' # Null /\ timers' = {})]_vars

\* C3: a status response whose operation id is not the current job's is
\* discarded: it changes neither the current job nor the polling timer.
C3_StaleResponseDiscarded ==
    [][\A c \in BagToSet(statusCalls) :
         (StatusResolvedFor(c) /\ c.operationId # currentJob.operationId)
            => UNCHANGED <<currentJob, timers, pollingIntervalRef>>]_vars

\* C4: at most one polling timer is live in every reachable state, and it is
\* the one the ref holds: a timer is created only after the previous one was
\* cleared.
C4_AtMostOneTimer ==
    /\ Cardinality(timers) <= 1
    /\ \A t \in timers : t.id = pollingIntervalRef

\* The second job is being polled: its timer was created after the first job's.
C4_Witness ==
    /\ currentJob.operationId = 2
    /\ currentJob.status = "RUNNING"
    /\ timers # {}

\* The client state handleClearJob leaves.
Cleared ==
    /\ currentJob = NoJob
    /\ currentPrompt = ""
    /\ error = Null
    /\ ~isLoading
    /\ ~isFetchingStatus
    /\ timers = {}
    /\ pollingIntervalRef = 0

\* C5: cancelling a GENERATING or RUNNING job ends, however the relay's cancel
\* call settles, with no current job and no polling timer; and a clear invoked
\* on the state a clear left changes nothing of the client's state.
C5_CancelClearsAndIsIdempotent ==
    [][/\ CancelSettled => (currentJob' = NoJob /\ timers' = {}
                              /\ pollingIntervalRef' = 0 /\ Cleared')
       /\ (Cleared /\ ClickClear) => UNCHANGED clientVars]_vars

\* A cancel of a RUNNING job whose relay call failed is about to complete.
C5_Witness ==
    /\ currentJob.status = "RUNNING"
    /\ \E c \in BagToSet(cancelCalls) :
          c.st = "hung" /\ c.operationId = currentJob.operationId

\* C6: while the relay's cancel call is in flight no job is current and no
\* polling timer is live: the job is cleared when cancel is invoked.
C6_ClearedWithoutWaiting ==
    cancelCalls # EmptyBag => (currentJob = NoJob /\ timers = {})

\* C7: once the job's status is SUCCEEDED or FAILED, no status response sets
\* that job's status back to RUNNING or GENERATING.
C7_TerminalAbsorbing ==
    [][(/\ currentJob.status \in Terminal
        /\ StatusResolved
        /\ currentJob'.operationId = currentJob.operationId)
         => currentJob'.status \in Terminal]_vars

\* What the upstream service holds for the current job's operation.
Upstream == operations[currentJob.operationId]

\* C8: the job is SUCCEEDED only if its upstream operation is done with a
\* result, and FAILED only if it is done with no result or with an error; the
\* same holds of every status the relay has answered.
C8_TerminalOnlyWhenDone ==
    /\ currentJob.status = "SUCCEEDED"
          => (Upstream.done /\ Upstream.response # Null)
    /\ currentJob.status = "FAILED"
          => (Upstream.done /\ (Upstream.response = Null \/ Upstream.error # Null))
    /\ \A c \in BagToSet(statusCalls) :
          /\ c.st = "SUCCEEDED"
                => (operations[c.operationId].done
                      /\ operations[c.operationId].response # Null)
          /\ c.st = "FAILED"
                => (operations[c.operationId].done
                      /\ operations[c.operationId].response = Null)

\* Both terminal statuses have been reported: one job SUCCEEDED, and a FAILED
\* answer for the other operation is on its way.
C8_Witness ==
    /\ currentJob.status = "SUCCEEDED"
    /\ \E c \in BagToSet(statusCalls) : c.st = "FAILED"

\* C9: when a poll has found the operation done with an error, the job is
\* FAILED, its errorMessage is the reported message and no timer is live.
C9_ErrorCaptured ==
    (currentJob.status \in Terminal /\ Upstream.error # Null)
       => (/\ currentJob.status = "FAILED"
           /\ currentJob.errorMessage = Upstream.error
           /\ timers = {})

\* C10: at most one generate call is in flight at any time.
C10_AtMostOneStart ==
    BagCardinality(generateCalls) <= 1

\* C11: a reset that runs to its end leaves no job and no timer, and from then
\* on (no job, not busy) the client stays without a job until the user starts
\* one: a job never appears while the busy flag is down.
C11_ResetLeavesNoJobUntilStart ==
    [][/\ (CancelSettled \/ (ClickClear /\ ~Pollable(currentJob)))
             => (currentJob' = NoJob /\ timers' = {})
       /\ (currentJob = NoJob /\ ~isLoading) => currentJob' = NoJob]_vars

\* C12: a start call that resolves makes the job GENERATING with the operation
\* id the relay returned; one that rejects sets an error, leaves the job as it
\* was (no job becomes GENERATING or gets an operation id), creates no timer
\* and releases the busy flag.
C12_StartOutcome ==
    [][\A c \in BagToSet(generateCalls) :
         InitiateSettledFor(c) =>
            IF c.st = "200"
            THEN /\ currentJob'.status = "GENERATING"
                 /\ currentJob'.operationId = c.operationId
                 /\ c.operationId \in Issued
            ELSE /\ error' # Null
                 /\ ~isLoading'
                 /\ UNCHANGED <<currentJob, timers, pollingIntervalRef>>]_vars

\* A start has failed: its error is shown, nothing is busy, there is no job
\* and no timer.
C12_Witness ==
    /\ error = InitiateFailedMsg
    /\ ~isLoading
    /\ currentJob = NoJob
    /\ timers = {}
    /\ generateCalls = EmptyBag

\* C14: every generate request the relay has finished handling has a response,
\* {operationId} (200) or a 4xx/5xx with {message}; none is left unanswered, also
\* when the upstream call threw.
C14_GenerateAlwaysAnswered ==
    \A c \in BagToSet(generateCalls) : c.st \in {"sent", "200", "400", "500"}

\* C16: a status request is issued (by a tick or by the manual fetch) only
\* while the current job has an operation id and is GENERATING or RUNNING, and
\* the request carries that job's operation id.
C16_StatusRequestOnlyForPollableJob ==
    [][\A c \in BagToSet(statusCalls') :
         (c.st = "sent" /\ CopiesIn(c, statusCalls') > CopiesIn(c, statusCalls))
            => /\ currentJob # NoJob
               /\ currentJob.operationId # 0
               /\ currentJob.status \in {"GENERATING", "RUNNING"}
               /\ c.operationId = currentJob.operationId]_vars

\* A manual status request is in flight for the current, RUNNING job.
C16_Witness ==
    /\ currentJob.status = "RUNNING"
    /\ \E c \in BagToSet(statusCalls) :
         /\ c.by = "manual"
         /\ c.st = "sent"
         /\ c.operationId = currentJob.operationId

\* C17: a status request that fails (an error answer or none at all) leaves the
\* current job, all its fields, as it was; of the client's data only the error
\* message and the isLoading and isFetchingStatus flags change.
C17_StatusErrorKeepsJob ==
    [][StatusRejected =>
         /\ currentJob' = currentJob
         /\ currentPrompt' = currentPrompt
         /\ error' = StatusFailedMsg]_vars

\* A status request has failed while the job was RUNNING: the job is still
\* RUNNING with its operation id and the failure is shown.
C17_Witness ==
    /\ error = StatusFailedMsg
    /\ currentJob.status = "RUNNING"
    /\ currentJob.operationId # 0
    /\ ~isFetchingStatus
    /\ statusCalls = EmptyBag

\* C19: when handleClearJob completes, after a cancel call that resolved or
\* failed or with no cancel call at all, the client is in its initial state: no
\* job, no timer, neither flag set, empty prompt, and no error; the
\* cancellation-failure message is never the error left after the clear.
C19_ClearLeavesInitialStateNoError ==
    [][/\ \A c \in BagToSet(cancelCalls) :
            CancelSettledFor(c) => (Cleared' /\ error' # CancelFailedMsg)
       /\ (ClickClear /\ ~Pollable(currentJob)) => Cleared']_vars

\* A cancel call the relay left unanswered is pending while an error is shown:
\* the clear is about to complete through its catch block.
C19_Witness ==
    /\ error = StatusFailedMsg
    /\ \E c \in BagToSet(cancelCalls) : Settles(c.st) = "reject"

\* C20: a start that succeeds leaves isLoading true (it stays so until a poll
\* returns a terminal status or fails), and a cancel request is issued only for
\* a pollable job whose isLoading is false; so no cancel request is issued
\* during uninterrupted polling.
C20_CancelOnlyAfterStatusError ==
    [][/\ \A c \in BagToSet(generateCalls) :
            (InitiateSettledFor(c) /\ c.st = "200") => isLoading'
       /\ \A c \in BagToSet(cancelCalls') :
            CopiesIn(c, cancelCalls') > CopiesIn(c, cancelCalls)
               => (Pollable(currentJob) /\ ~isLoading)]_vars

\* C15: a polling timer is live only while the component is mounted and the
\* current job has an operation id and is GENERATING or RUNNING (and the timer
\* polls that job); every step that makes the job SUCCEEDED or FAILED, that
\* completes a cancellation or a reset, or that unmounts the component leaves
\* no timer.
C15_TimerOnlyWhilePollable ==
    /\ [](timers # {} =>
            /\ mounted
            /\ currentJob # NoJob
            /\ currentJob.operationId # 0
            /\ currentJob.status \in {"GENERATING", "RUNNING"}
            /\ \A t \in timers : t.operationId = currentJob.operationId)
    /\ [][/\ currentJob'.status \in Terminal => timers' = {}
          /\ (CancelSettled \/ (ClickClear /\ ~Pollable(currentJob)))
                => timers' = {}
          /\ Unmount => timers' = {}]_vars

\* The component was unmounted while it polled a RUNNING job: the job is still
\* RUNNING and no timer is left.
C15_Witness ==
    /\ ~mounted
    /\ currentJob.status = "RUNNING"
    /\ currentJob.operationId # 0
    /\ timers = {}

\* C18: the App never sends a generate request with an empty or whitespace-only
\* prompt; handleInitiateVideo invoked with such a prompt sets the error and
\* leaves the job, the timer, the busy flag and the calls in flight unchanged;
\* and the relay answers a generate request without a prompt with 400, without
\* starting an upstream operation.
C18_EmptyPromptRejected ==
    /\ [](\A c \in BagToSet(generateCalls) :
             c.from = "app" => trim(c.prompt) # "")
    /\ [][/\ (WhileMounted(CallHandleInitiateVideo) /\ trim(currentPrompt) = "")
               => /\ error' = PromptEmptyMsg
                  /\ UNCHANGED <<currentJob, timers, pollingIntervalRef,
                                 isLoading, callVars, operations>>
          /\ \A c \in BagToSet(generateCalls) :
               (/\ c.prompt = ""
                /\ c.st = "sent"
                /\ CopiesIn(c, generateCalls') < CopiesIn(c, generateCalls))
                  => /\ generateCalls' =
                          Move(generateCalls, c, [c EXCEPT !.st = "400"])
                     /\ operations' = operations]_vars

\* The empty-prompt error is shown, nothing is busy and no call of the App is
\* in flight, while a request without a prompt has got the relay's 400.
C18_Witness ==
    /\ error = PromptEmptyMsg
    /\ ~isLoading
    /\ \A c \in BagToSet(generateCalls) : c.from = "direct"
    /\ \E c \in BagToSet(generateCalls) : c.prompt = "" /\ c.st = "400"

\* C13: on the happy path a start that succeeds makes the job GENERATING; the
\* relay answers a poll RUNNING when the operation is not done and SUCCEEDED
\* when it is done with a result, and the answer becomes the job's status; a
\* polled job whose operation is done with a result eventually is SUCCEEDED;
\* and while the job is SUCCEEDED there is no timer and no status request is
\* issued.
C13_HappyPathProgress ==
    /\ [][/\ \A c \in BagToSet(generateCalls) :
               (InitiateSettledFor(c) /\ c.st = "200")
                  => currentJob'.status = "GENERATING"
          /\ \A c \in BagToSet(statusCalls) :
               /\ (c.st = "sent"
                     /\ CopiesIn(c, statusCalls') < CopiesIn(c, statusCalls))
                    => LET op == operations[c.operationId]
                           answer == IF ~op.done THEN "RUNNING"
                                     ELSE IF op.response # Null THEN "SUCCEEDED"
                                     ELSE "FAILED"
                       IN  statusCalls' =
                              Move(statusCalls, c, [c EXCEPT !.st = answer])
               /\ StatusResolvedFor(c) => currentJob'.status = c.st
          /\ currentJob.status = "SUCCEEDED"
               => \A c \in BagToSet(statusCalls') :
                     CopiesIn(c, statusCalls') <= CopiesIn(c, statusCalls)]_vars
    /\ [](currentJob.status = "SUCCEEDED" => timers = {})
    /\ \A id \in 1..MaxOperations :
          (/\ Pollable(currentJob)
           /\ currentJob.operationId = id
           /\ id \in Issued
           /\ operations[id].done
           /\ operations[id].response # Null) ~> (currentJob.status = "SUCCEEDED")

\* The happy path has run to its end: the job is SUCCEEDED with the video's
\* operation done, nothing is busy, no timer is live and no call is in flight.
C13_Witness ==
    /\ currentJob.status = "SUCCEEDED"
    /\ operations[currentJob.operationId].response = Video
    /\ ~isLoading
    /\ ~isFetchingStatus
    /\ timers = {}
    /\ InFlight = 0

\* C21: whenever the current job is SUCCEEDED or FAILED, isLoading is false:
\* the controls are never left locked on a finished job.
C21_FinishedJobNotBusy ==
    currentJob.status \in Terminal => ~isLoading

\* A status response with a terminal status arrived while a start was in
\* flight: the job is finished and isLoading is false.
C21_Witness ==
    /\ currentJob.status \in Terminal
    /\ ~isLoading
    /\ \E c \in BagToSet(generateCalls) : c.from = "app"
====
